---- MODULE Spec2Model ----
(***************************************************************************)
(* Model of the OD-request REST backend.  Two Express applications live in *)
(* the repository and talk to the same hosted store:                       *)
(*   "part_000"  the server with the authenticate / authorize middleware,  *)
(*   "index"     src/index.js, the server whose routes carry no middleware.*)
(* A request is served in steps separated by the awaits of its handler;    *)
(* every store call is one atomic step on the shared tables.               *)
(***************************************************************************)
EXTENDS Integers, Sequences, FiniteSets, TLC

VARIABLES
    admin_whitelist,      \* table admin_whitelist: set of rows [email, department]
    users,                \* table users: set of rows [id]
    year_period_timings,  \* table year_period_timings: set of rows [year, period_number]
    od_requests,          \* table od_requests: sequence of rows, in insertion order
    clock,                \* the instant new Date() returns, minutes since the epoch (UTC)
    tz,                   \* offset of the server's local time zone from UTC, minutes
    reqs                  \* the requests being served, by connection

vars == <<admin_whitelist, users, year_period_timings, od_requests, clock, tz, reqs>>

store == <<admin_whitelist, users, year_period_timings, od_requests>>

(***************************************************************************)
(* Bounds.                                                                 *)
(***************************************************************************)
NumConns == 2      \* connections served at the same time
MaxRows  == 2      \* rows od_requests may hold
MaxTicks == 2      \* times the clock advances

Conns == 1..NumConns

(***************************************************************************)
(* JavaScript values.                                                      *)
(***************************************************************************)
Undefined == "undefined"
Null      == "null"

Truthy(v) == v # Undefined /\ v # Null /\ v # ""

\* String.prototype.endsWith
EndsWith(s, suffix) ==
    /\ Len(s) >= Len(suffix)
    /\ SubSeq(s, Len(s) - Len(suffix) + 1, Len(s)) = suffix

(***************************************************************************)
(* Tokens.  jwt.verify returns the claims of a token signed with the       *)
(* secret and not expired, and throws on any other token.                  *)
(***************************************************************************)
Claims ==
    [ tok_student  |-> [sub |-> "u1", email |-> "asha@kpriet.ac.in"],
      tok_hod      |-> [sub |-> "a1", email |-> "hod.cse@kpriet.ac.in"],
      tok_dean     |-> [sub |-> "a2", email |-> "dean@gmail.com"],
      tok_outsider |-> [sub |-> "x1", email |-> "eve@kpriet.ac.in.evil.org"] ]

ValidTokens == DOMAIN Claims

NoUser == [sub |-> Undefined, email |-> Undefined]

jwtVerifies(token) == token \in ValidTokens

NoHeader == [scheme |-> Undefined, token |-> Undefined]

\* authHeader && authHeader.startsWith('Bearer ')
HasBearer(hdr) == hdr.scheme = "Bearer"

ValidCredential(hdr) == HasBearer(hdr) /\ jwtVerifies(hdr.token)

(***************************************************************************)
(* Dates.  A date string is kept by its form and by the calendar day and   *)
(* minute of day it spells (days are counted from the epoch):              *)
(*   "date"      YYYY-MM-DD, which new Date() reads as midnight UTC,       *)
(*   "datetime"  YYYY-MM-DDTHH:mm, which new Date() reads as local time,   *)
(*   "invalid"   anything new Date() turns into an Invalid Date.           *)
(***************************************************************************)
DayMinutes == 24 * 60

NoDate == [form |-> "invalid", day |-> 0, minute |-> 0]

\* new Date(dateStr): the instant in minutes, or an Invalid Date (isNaN)
DateParse(dateStr, zone) ==
    CASE dateStr.form = "date"     ->
             [isNaN |-> FALSE, time |-> dateStr.day * DayMinutes]
      [] dateStr.form = "datetime" ->
             [isNaN |-> FALSE, time |-> dateStr.day * DayMinutes + dateStr.minute - zone]
      [] OTHER                     -> [isNaN |-> TRUE, time |-> 0]

\* new Date(t.getFullYear(), t.getMonth(), t.getDate()): the local midnight of t, as a day
LocalDay(t, zone) == (t + zone) \div DayMinutes

\* reqDateNormalized < nowDateNormalized: false when the request date is an Invalid Date
IsPastDate(dateStr, now, zone) ==
    LET requestDate == DateParse(dateStr, zone)
    IN  /\ ~requestDate.isNaN
        /\ LocalDay(requestDate.time, zone) < LocalDay(now, zone)

\* validatePeriods, after the timing lookup, whose rows it does not read
validatePeriods(timings, dateStr, now, zone) ==
    IF IsPastDate(dateStr, now, zone)
    THEN [valid |-> FALSE, errorMsg |-> "Cannot apply for OD on past dates."]
    ELSE [valid |-> TRUE, errorMsg |-> Undefined]

\* the service starts on day 10, at 10:00 UTC
StartOfService == 10 * DayMinutes + 10 * 60

TickMinutes == 12 * 60

ZoneIST == 5 * 60 + 30

Zones == {0 - 5 * 60, 0, ZoneIST}

(***************************************************************************)
(* The store.                                                              *)
(***************************************************************************)
Departments == {"CSE", "ECE"}

\* .eq('email', email).single() on admin_whitelist: the row, when exactly one matches
WhitelistMatches(email) == {w \in admin_whitelist : w.email = email}

WhitelistSingle(email) ==
    IF Cardinality(WhitelistMatches(email)) = 1
    THEN CHOOSE w \in WhitelistMatches(email) : TRUE
    ELSE [email |-> Null, department |-> Null]

\* the lookup without its .eq('email', email) filter
isAdminUnfiltered(email) == admin_whitelist # {}

\* !!admin
isAdmin(email) == Cardinality(WhitelistMatches(email)) = 1

\* the domain test alone, without !isAdmin
isUserDomainOnly(admin, email) == EndsWith(email, "@kpriet.ac.in")

\* !isAdmin && email.endsWith('@kpriet.ac.in')
isUser(admin, email) == ~admin /\ EndsWith(email, "@kpriet.ac.in")

\* the default of the status column of od_requests
DefaultStatus == "pending"

\* .insert(req.body): every field of the body is stored, absent columns take their defaults
NewODRow(body, id) ==
    [ id          |-> id,
      user_id     |-> body.user_id,
      department  |-> body.department,
      date        |-> body.date,
      status      |-> IF body.status = Undefined THEN DefaultStatus ELSE body.status,
      remarks     |-> IF body.remarks = Undefined THEN Null ELSE body.remarks,
      reviewed_by |-> IF body.reviewed_by = Undefined THEN Null ELSE body.reviewed_by,
      reviewed_at |-> Null ]

\* the update with .eq('status', 'pending') added: a reviewed row is left as it is
ReviewedRowIfPending(row, body, now) ==
    IF row.status = "pending"
    THEN [row EXCEPT !.status = body.status,
                     !.remarks = body.remarks,
                     !.reviewed_by = body.reviewedBy,
                     !.reviewed_at = ToString(now)]
    ELSE row

\* .update({status, remarks, reviewed_by, reviewed_at}).eq('id', id): no condition on the row
ReviewedRow(row, body, now) ==
    [row EXCEPT !.status = body.status,
                !.remarks = body.remarks,
                !.reviewed_by = body.reviewedBy,
                !.reviewed_at = ToString(now)]

RowsWithId(id) == {i \in 1..Len(od_requests) : od_requests[i].id = id}

\* .order('submitted_at', {ascending: false}): latest insertion first
RECURSIVE Descending(_)
Descending(rows) ==
    IF rows = <<>> THEN <<>> ELSE Descending(Tail(rows)) \o <<Head(rows)>>

\* the stats object of /api/reports/summary
SummaryStats(data) ==
    LET IsApproved(r) == r.status = "approved"
        IsPending(r)  == r.status = "pending"
        IsRejected(r) == r.status = "rejected"
        depts == {data[i].department : i \in 1..Len(data)}
    IN  [ total    |-> Len(data),
          approved |-> Len(SelectSeq(data, IsApproved)),
          pending  |-> Len(SelectSeq(data, IsPending)),
          rejected |-> Len(SelectSeq(data, IsRejected)),
          deptDistribution |->
              [d \in depts |-> Cardinality({i \in 1..Len(data) : data[i].department = d})] ]

\* one line of the CSV of /api/reports/export
CsvLine(r) == [id |-> r.id, department |-> r.department, date |-> r.date, status |-> r.status]

ExportRows(data) == [i \in 1..Len(data) |-> CsvLine(data[i])]

(***************************************************************************)
(* Requests.                                                               *)
(***************************************************************************)
NoBody ==
    [ id |-> Undefined, user_id |-> Undefined, email |-> Undefined,
      department |-> Undefined, year |-> 0, periods |-> {}, date |-> NoDate,
      status |-> Undefined, remarks |-> Undefined,
      reviewed_by |-> Undefined, reviewedBy |-> Undefined ]

Idle ==
    [ app |-> Undefined, route |-> Undefined, hdr |-> NoHeader, param |-> Undefined,
      body |-> NoBody, pc |-> "idle", user |-> NoUser, department |-> Undefined,
      error |-> Undefined, status |-> 0, out |-> <<>> ]

\* the routes of part_000 whose middleware chain has authorize('admin')
AdminRoutes ==
    { "GET /api/od/pending", "PUT /api/od/review/:id", "GET /api/reports/summary",
      "GET /api/reports/export", "GET /api/admin/whitelist", "POST /api/admin/whitelist",
      "DELETE /api/admin/whitelist/:email", "POST /api/admin/timings" }

\* the routes of part_000 whose middleware chain has authorize('user')
UserRoutes == { "POST /api/od/request" }

\* the routes of part_000 whose middleware chain has authenticate only
BearerRoutes ==
    { "GET /api/timings/:year", "GET /api/user/:id", "POST /api/user",
      "GET /api/od/history/:userId" }

OpenRoutes == { "GET /api/health" }

\* the routes src/index.js registers, none with middleware
IndexRoutes ==
    { "GET /api/health", "GET /api/timings/:year", "GET /api/user/:id", "POST /api/user",
      "POST /api/od/request", "GET /api/od/history/:userId", "GET /api/od/pending",
      "PUT /api/od/review/:id", "GET /api/reports/summary", "GET /api/reports/export" }

Role(route) ==
    IF route \in AdminRoutes THEN "admin"
    ELSE IF route \in UserRoutes THEN "user"
    ELSE Undefined

\* the first function of the route's chain
FirstStage(app, route) ==
    IF app = "part_000" /\ route \notin OpenRoutes THEN "authenticate" ELSE "handler"

InFlight(c) == reqs[c].pc \notin {"idle", "done"}

Creating == {c \in Conns : InFlight(c) /\ reqs[c].route = "POST /api/od/request"}

Reply(c, code, payload) ==
    reqs' = [reqs EXCEPT ![c].pc = "done", ![c].status = code, ![c].out = payload]

Goto(c, stage) == reqs' = [reqs EXCEPT ![c].pc = stage]

At(c, route, stage) == reqs[c].route = route /\ reqs[c].pc = stage

\* a request arrives on a free connection
Receive(c, q) ==
    /\ reqs[c].pc = "idle"
    /\ q.route = "POST /api/od/request" =>
           Len(od_requests) + Cardinality(Creating) < MaxRows
    /\ reqs' = [reqs EXCEPT ![c] =
           [Idle EXCEPT !.app = q.app, !.route = q.route, !.hdr = q.hdr,
                        !.param = q.param, !.body = q.body,
                        !.pc = FirstStage(q.app, q.route)]]
    /\ UNCHANGED <<store, clock, tz>>

\* the response has been sent and the connection is free again
Close(c) ==
    /\ reqs[c].pc = "done"
    /\ reqs' = [reqs EXCEPT ![c] = Idle]
    /\ UNCHANGED <<store, clock, tz>>

Tick ==
    /\ clock < StartOfService + MaxTicks * TickMinutes
    /\ clock' = clock + TickMinutes
    /\ UNCHANGED <<store, tz, reqs>>

(***************************************************************************)
(* Middleware of part_000.                                                 *)
(***************************************************************************)
authenticate(c) ==
    /\ reqs[c].pc = "authenticate"
    /\ IF ~HasBearer(reqs[c].hdr)
       THEN Reply(c, 401, "No token provided")
       ELSE IF ~jwtVerifies(reqs[c].hdr.token)
       THEN Reply(c, 401, "Invalid token")
       ELSE reqs' = [reqs EXCEPT
                ![c].user = Claims[reqs[c].hdr.token],
                ![c].pc = IF Role(reqs[c].route) = Undefined THEN "handler" ELSE "authorize"]
    /\ UNCHANGED <<store, clock, tz>>

authorize(c) ==
    /\ reqs[c].pc = "authorize"
    /\ LET email == reqs[c].user.email
           admin == WhitelistSingle(email)
       IN  IF Role(reqs[c].route) = "admin"
           THEN IF isAdmin(email)
                THEN reqs' = [reqs EXCEPT ![c].department = admin.department,
                                          ![c].pc = "handler"]
                ELSE Reply(c, 403, "Admin access required")
           ELSE IF isUser(isAdmin(email), email)
                THEN Goto(c, "handler")
                ELSE Reply(c, 403, "User access required (KPRIET domain)")
    /\ UNCHANGED <<store, clock, tz>>

(***************************************************************************)
(* Handlers.  The handlers of src/index.js are those of part_000 without   *)
(* the checks on req.user, which that file never sets.                     *)
(***************************************************************************)
Checked(c) == reqs[c].app = "part_000"

health(c) ==
    /\ At(c, "GET /api/health", "handler")
    /\ Reply(c, 200, "Server is running")
    /\ UNCHANGED <<store, clock, tz>>

timings_get(c) ==
    /\ At(c, "GET /api/timings/:year", "handler")
    /\ Reply(c, 200, {t \in year_period_timings : ToString(t.year) = reqs[c].param})
    /\ UNCHANGED <<store, clock, tz>>

\* the ownership check of /api/user/:id and /api/od/history/:userId
OwnerOrAdmin(c) ==
    \/ reqs[c].user.sub = reqs[c].param
    \/ isAdmin(reqs[c].user.email)

user_get_check(c) ==
    /\ At(c, "GET /api/user/:id", "handler")
    /\ IF Checked(c) /\ ~OwnerOrAdmin(c)
       THEN Reply(c, 403, "Unauthorized")
       ELSE Goto(c, "query")
    /\ UNCHANGED <<store, clock, tz>>

user_get_query(c) ==
    /\ At(c, "GET /api/user/:id", "query")
    /\ LET found == {u \in users : u.id = reqs[c].param}
       IN  IF Cardinality(found) = 1
           THEN Reply(c, 200, found)
           ELSE Reply(c, 404, "User not found")
    /\ UNCHANGED <<store, clock, tz>>

user_post(c) ==
    /\ At(c, "POST /api/user", "handler")
    /\ LET body == reqs[c].body
       IN  IF Checked(c) /\ reqs[c].user.sub # body.id
           THEN /\ Reply(c, 403, "Cannot update other users")
                /\ UNCHANGED users
           ELSE LET row == [id |-> body.id, department |-> body.department]
                IN  /\ users' = {u \in users : u.id # body.id} \cup {row}
                    /\ Reply(c, 200, {row})
    /\ UNCHANGED <<admin_whitelist, year_period_timings, od_requests, clock, tz>>

\* the user_id check, then validatePeriods with its timing lookup
od_request_validate(c) ==
    /\ At(c, "POST /api/od/request", "handler")
    /\ LET body    == reqs[c].body
           timings == {t \in year_period_timings :
                          t.year = body.year /\ t.period_number \in body.periods}
           validation == validatePeriods(timings, body.date, clock, tz)
       IN  IF Checked(c) /\ body.user_id # reqs[c].user.sub
           THEN Reply(c, 403, "User ID mismatch")
           ELSE IF ~validation.valid
           THEN Reply(c, 400, validation.errorMsg)
           ELSE Goto(c, "insert")
    /\ UNCHANGED <<store, clock, tz>>

od_request_insert(c) ==
    /\ At(c, "POST /api/od/request", "insert")
    /\ LET row == NewODRow(reqs[c].body, ToString(Len(od_requests) + 1))
       IN  /\ od_requests' = Append(od_requests, row)
           /\ Reply(c, 201, <<row>>)
    /\ UNCHANGED <<admin_whitelist, users, year_period_timings, clock, tz>>

od_history_check(c) ==
    /\ At(c, "GET /api/od/history/:userId", "handler")
    /\ IF Checked(c) /\ ~OwnerOrAdmin(c)
       THEN Reply(c, 403, "Unauthorized")
       ELSE Goto(c, "query")
    /\ UNCHANGED <<store, clock, tz>>

od_history_query(c) ==
    /\ At(c, "GET /api/od/history/:userId", "query")
    /\ LET Mine(r) == r.user_id = reqs[c].param
       IN  Reply(c, 200, Descending(SelectSeq(od_requests, Mine)))
    /\ UNCHANGED <<store, clock, tz>>

\* the department filter the handlers of part_000 add when req.user.department is set
Scoped(c, r) == (Checked(c) /\ Truthy(reqs[c].department)) => r.department = reqs[c].department

od_pending(c) ==
    /\ At(c, "GET /api/od/pending", "handler")
    /\ LET Wanted(r) == r.status = "pending" /\ Scoped(c, r)
       IN  Reply(c, 200, SelectSeq(od_requests, Wanted))
    /\ UNCHANGED <<store, clock, tz>>

\* the reviewedBy check, then the update of the row
od_review(c) ==
    /\ At(c, "PUT /api/od/review/:id", "handler")
    /\ LET body  == reqs[c].body
           found == RowsWithId(reqs[c].param)
       IN  IF Checked(c) /\ body.reviewedBy # reqs[c].user.sub
           THEN /\ Reply(c, 403, "Reviewer ID mismatch")
                /\ UNCHANGED od_requests
           ELSE IF Cardinality(found) # 1
           THEN /\ Reply(c, 500, "JSON object requested, multiple (or no) rows returned")
                /\ UNCHANGED od_requests
           ELSE LET i   == CHOOSE i \in found : TRUE
                    row == ReviewedRow(od_requests[i], body, clock)
                IN  /\ od_requests' = [od_requests EXCEPT ![i] = row]
                    /\ Reply(c, 200, <<row>>)
    /\ UNCHANGED <<admin_whitelist, users, year_period_timings, clock, tz>>

reports_summary(c) ==
    /\ At(c, "GET /api/reports/summary", "handler")
    /\ LET Wanted(r) == Scoped(c, r)
       IN  Reply(c, 200, SummaryStats(SelectSeq(od_requests, Wanted)))
    /\ UNCHANGED <<store, clock, tz>>

reports_export(c) ==
    /\ At(c, "GET /api/reports/export", "handler")
    /\ Reply(c, 200, ExportRows(Descending(od_requests)))
    /\ UNCHANGED <<store, clock, tz>>

whitelist_get(c) ==
    /\ At(c, "GET /api/admin/whitelist", "handler")
    /\ Reply(c, 200, admin_whitelist)
    /\ UNCHANGED <<store, clock, tz>>

\* email is the key of admin_whitelist: a second row for an email is refused
whitelist_post(c) ==
    /\ At(c, "POST /api/admin/whitelist", "handler")
    /\ LET body == reqs[c].body
           row  == [email |-> body.email,
                    department |-> IF body.department = Undefined THEN Null
                                   ELSE body.department]
       IN  IF WhitelistMatches(body.email) # {}
           THEN /\ Reply(c, 500, "duplicate key value violates unique constraint")
                /\ UNCHANGED admin_whitelist
           ELSE /\ admin_whitelist' = admin_whitelist \cup {row}
                /\ Reply(c, 201, {row})
    /\ UNCHANGED <<users, year_period_timings, od_requests, clock, tz>>

whitelist_delete(c) ==
    /\ At(c, "DELETE /api/admin/whitelist/:email", "handler")
    /\ admin_whitelist' = {w \in admin_whitelist : w.email # reqs[c].param}
    /\ Reply(c, 204, <<>>)
    /\ UNCHANGED <<users, year_period_timings, od_requests, clock, tz>>

admin_timings(c) ==
    /\ At(c, "POST /api/admin/timings", "handler")
    /\ LET rows == {[year |-> reqs[c].body.year, period_number |-> p] : p \in reqs[c].body.periods}
       IN  /\ year_period_timings' = year_period_timings \cup rows
           /\ Reply(c, 200, rows)
    /\ UNCHANGED <<admin_whitelist, users, od_requests, clock, tz>>

(***************************************************************************)
(* The state of a fresh deployment: two administrators in the whitelist,   *)
(* the other tables empty, no request being served.                        *)
(***************************************************************************)
InitStore ==
    /\ admin_whitelist = { [email |-> "hod.cse@kpriet.ac.in", department |-> "CSE"],
                           [email |-> "dean@gmail.com", department |-> Null] }
    /\ users = {}
    /\ year_period_timings = {}
    /\ od_requests = <<>>
    /\ clock = StartOfService
    /\ reqs = [c \in Conns |-> Idle]

Init == InitStore /\ tz = ZoneIST

InitAnyZone == InitStore /\ tz \in Zones

Request(app, route, hdr, param, body) ==
    [app |-> app, route |-> route, hdr |-> hdr, param |-> param, body |-> body]

Bearer(token) == [scheme |-> "Bearer", token |-> token]

Tomorrow == [form |-> "date", day |-> 11, minute |-> 0]

ODBody(user_id, department, date) ==
    [NoBody EXCEPT !.user_id = user_id, !.department = department,
                   !.year = 2, !.periods = {1}, !.date = date]

ReviewBody(status, remarks, reviewedBy) ==
    [NoBody EXCEPT !.status = status, !.remarks = remarks, !.reviewedBy = reviewedBy]

(***************************************************************************)
(* Spec: every route of both applications under every kind of credential,  *)
(* one body per route; a second connection changes the whitelist meanwhile.*)
(***************************************************************************)
RouteParam(route) ==
    CASE route = "GET /api/timings/:year"             -> "2"
      [] route = "GET /api/user/:id"                  -> "u1"
      [] route = "GET /api/od/history/:userId"        -> "u1"
      [] route = "PUT /api/od/review/:id"             -> "1"
      [] route = "DELETE /api/admin/whitelist/:email" -> "hod.cse@kpriet.ac.in"
      [] OTHER                                        -> Undefined

RouteBody(route) ==
    CASE route = "POST /api/user"            ->
             [NoBody EXCEPT !.id = "u1", !.department = "CSE"]
      [] route = "POST /api/od/request"      -> ODBody("u1", "CSE", Tomorrow)
      [] route = "PUT /api/od/review/:id"    -> ReviewBody("approved", "ok", "a1")
      [] route = "POST /api/admin/whitelist" ->
             [NoBody EXCEPT !.email = "asha@kpriet.ac.in", !.department = "ECE"]
      [] route = "POST /api/admin/timings"   -> [NoBody EXCEPT !.year = 2, !.periods = {1}]
      [] OTHER                               -> NoBody

Part000Routes == OpenRoutes \cup BearerRoutes \cup UserRoutes \cup AdminRoutes

AuthHeaders ==
    { NoHeader, [scheme |-> "Basic", token |-> "tok_hod"], Bearer(""), Bearer("forged") }
      \cup {Bearer(t) : t \in ValidTokens}

WhitelistChanges == {"POST /api/admin/whitelist", "DELETE /api/admin/whitelist/:email"}

AuthRequests(c) ==
    IF c = 1
    THEN {Request("part_000", rt, h, RouteParam(rt), RouteBody(rt)) :
              rt \in Part000Routes, h \in AuthHeaders}
         \cup {Request("index", rt, NoHeader, RouteParam(rt), RouteBody(rt)) : rt \in IndexRoutes}
    ELSE {Request("part_000", rt, Bearer("tok_dean"), RouteParam(rt), RouteBody(rt)) :
              rt \in WhitelistChanges}

Serve(c) ==
    \/ authenticate(c)
    \/ authorize(c)
    \/ health(c)
    \/ timings_get(c)
    \/ user_get_check(c)
    \/ user_get_query(c)
    \/ user_post(c)
    \/ od_request_validate(c)
    \/ od_request_insert(c)
    \/ od_history_check(c)
    \/ od_history_query(c)
    \/ od_pending(c)
    \/ od_review(c)
    \/ reports_summary(c)
    \/ reports_export(c)
    \/ whitelist_get(c)
    \/ whitelist_post(c)
    \/ whitelist_delete(c)
    \/ admin_timings(c)
    \/ Close(c)

Next ==
    \E c \in Conns :
        \/ \E q \in AuthRequests(c) : Receive(c, q)
        \/ Serve(c)

Spec == Init /\ [][Next]_vars

(***************************************************************************)
(* SpecRoles: the routes behind authorize, under every valid token, while  *)
(* the other connections change the whitelist.                             *)
(***************************************************************************)
RoleRequests(c) ==
    IF c = 1
    THEN {Request("part_000", rt, Bearer(t), RouteParam(rt), RouteBody(rt)) :
              rt \in UserRoutes \cup AdminRoutes, t \in ValidTokens}
    ELSE {Request("part_000", rt, Bearer("tok_dean"), RouteParam(rt), RouteBody(rt)) :
              rt \in WhitelistChanges}

NextRoles ==
    \E c \in Conns :
        \/ \E q \in RoleRequests(c) : Receive(c, q)
        \/ authenticate(c)
        \/ authorize(c)
        \/ od_request_validate(c)
        \/ od_request_insert(c)
        \/ od_pending(c)
        \/ od_review(c)
        \/ reports_summary(c)
        \/ reports_export(c)
        \/ whitelist_get(c)
        \/ whitelist_post(c)
        \/ whitelist_delete(c)
        \/ admin_timings(c)
        \/ Close(c)

SpecRoles == Init /\ [][NextRoles]_vars

(***************************************************************************)
(* SpecOD: creation and review of OD requests on both applications, with   *)
(* bodies that differ in the fields the handlers check or pass on.         *)
(***************************************************************************)
Create == "POST /api/od/request"

Review == "PUT /api/od/review/:id"

ODRequests ==
    { Request("part_000", Create, Bearer("tok_student"), Undefined, ODBody("u1", "CSE", Tomorrow)),
      Request("part_000", Create, Bearer("tok_student"), Undefined,
              [ODBody("u1", "CSE", Tomorrow) EXCEPT !.status = "approved", !.reviewed_by = "a1"]),
      Request("part_000", Create, Bearer("tok_student"), Undefined, ODBody("a1", "CSE", Tomorrow)),
      Request("index", Create, NoHeader, Undefined, ODBody("a1", "CSE", Tomorrow)),
      Request("part_000", Review, Bearer("tok_hod"), "1", ReviewBody("approved", "ok", "a1")),
      Request("part_000", Review, Bearer("tok_hod"), "1", ReviewBody("rejected", "no", "a1")),
      Request("part_000", Review, Bearer("tok_dean"), "1", ReviewBody("rejected", "no", "a2")),
      Request("part_000", Review, Bearer("tok_hod"), "1", ReviewBody("approved", "ok", "a2")),
      Request("index", Review, NoHeader, "1", ReviewBody("rejected", "no", "x1")) }

NextOD ==
    \/ Tick
    \/ \E c \in Conns :
        \/ \E q \in ODRequests : Receive(c, q)
        \/ authenticate(c)
        \/ authorize(c)
        \/ od_request_validate(c)
        \/ od_request_insert(c)
        \/ od_review(c)
        \/ Close(c)

SpecOD == Init /\ [][NextOD]_vars

(***************************************************************************)
(* SpecReviews: reviews of the first OD request by two administrators, on  *)
(* every connection at once, while the clock advances; the first          *)
(* connection also brings the student's requests.                          *)
(***************************************************************************)
ReviewRequests(c) ==
    { Request("part_000", Review, Bearer("tok_hod"), "1", ReviewBody("approved", "ok", "a1")),
      Request("part_000", Review, Bearer("tok_hod"), "1", ReviewBody("rejected", "no", "a1")),
      Request("part_000", Review, Bearer("tok_dean"), "1", ReviewBody("rejected", "no", "a2")) }
      \cup IF c = 1
           THEN { Request("part_000", Create, Bearer("tok_student"), Undefined,
                          ODBody("u1", "CSE", Tomorrow)) }
           ELSE {}

NextReviews ==
    \/ Tick
    \/ \E c \in Conns :
        \/ \E q \in ReviewRequests(c) : Receive(c, q)
        \/ authenticate(c)
        \/ authorize(c)
        \/ od_request_validate(c)
        \/ od_request_insert(c)
        \/ od_review(c)
        \/ Close(c)

SpecReviews == Init /\ [][NextReviews]_vars

(***************************************************************************)
(* SpecReports: rows of two departments, and the reports read by an        *)
(* administrator with a department and by one without.                     *)
(***************************************************************************)
ReportRequests ==
    { Request("part_000", Create, Bearer("tok_student"), Undefined, ODBody("u1", d, Tomorrow)) :
          d \in Departments }
      \cup { Request("part_000", Review, Bearer("tok_hod"), "1", ReviewBody("approved", "ok", "a1")) }
      \cup { Request("part_000", rt, Bearer(t), Undefined, NoBody) :
                 rt \in {"GET /api/od/pending", "GET /api/reports/summary", "GET /api/reports/export"},
                 t \in {"tok_hod", "tok_dean"} }

NextReports ==
    \E c \in Conns :
        \/ \E q \in ReportRequests : Receive(c, q)
        \/ authenticate(c)
        \/ authorize(c)
        \/ od_request_validate(c)
        \/ od_request_insert(c)
        \/ od_review(c)
        \/ od_pending(c)
        \/ reports_summary(c)
        \/ reports_export(c)
        \/ Close(c)

SpecReports == Init /\ [][NextReports]_vars

(***************************************************************************)
(* SpecDates: OD requests for days around today, in every form of date     *)
(* string, on servers in three time zones, while the clock advances and    *)
(* timing rows appear.                                                     *)
(***************************************************************************)
DateStrings ==
    {[form |-> "date", day |-> d, minute |-> 0] : d \in {9, 10, 11, 12}}
      \cup {[form |-> "datetime", day |-> 9, minute |-> 23 * 60 + 30],
            [form |-> "datetime", day |-> 10, minute |-> 30],
            [form |-> "datetime", day |-> 11, minute |-> 30],
            NoDate}

DateRequests ==
    { Request("part_000", Create, Bearer("tok_student"), Undefined, ODBody("u1", "CSE", d)) :
          d \in DateStrings }
      \cup { Request("part_000", "POST /api/admin/timings", Bearer("tok_hod"), Undefined,
                     [NoBody EXCEPT !.year = 2, !.periods = {1}]) }

NextDates ==
    \/ Tick
    \/ \E c \in Conns :
        \/ \E q \in DateRequests : Receive(c, q)
        \/ authenticate(c)
        \/ authorize(c)
        \/ od_request_validate(c)
        \/ od_request_insert(c)
        \/ admin_timings(c)
        \/ Close(c)

SpecDates == InitAnyZone /\ [][NextDates]_vars

(***************************************************************************)
(* Store failures.  A store call may come back with { data: null, error }  *)
(* for a reason other than a missing row (the store is unreachable, the    *)
(* query is refused); the request keeps the error it was handed.           *)
(***************************************************************************)
StoreDown == "store unavailable"

\* authorize when its whitelist lookup fails: adminError is not read, admin is null
authorize_lookup_fails(c) ==
    /\ reqs[c].pc = "authorize"
    /\ LET email == reqs[c].user.email
           failed == [reqs EXCEPT ![c].error = StoreDown]
       IN  IF Role(reqs[c].route) = "admin"
           THEN reqs' = [failed EXCEPT ![c].pc = "done", ![c].status = 403,
                                       ![c].out = "Admin access required"]
           ELSE IF isUser(FALSE, email)
                THEN reqs' = [failed EXCEPT ![c].pc = "handler"]
                ELSE reqs' = [failed EXCEPT ![c].pc = "done", ![c].status = 403,
                                            ![c].out = "User access required (KPRIET domain)"]
    /\ UNCHANGED <<store, clock, tz>>

\* the ownership check when its whitelist lookup fails: only data is destructured
owner_lookup_fails(c) ==
    /\ reqs[c].route \in {"GET /api/user/:id", "GET /api/od/history/:userId"}
    /\ reqs[c].pc = "handler"
    /\ Checked(c)
    /\ reqs[c].user.sub # reqs[c].param
    /\ reqs' = [reqs EXCEPT ![c].error = StoreDown, ![c].pc = "done", ![c].status = 403,
                            ![c].out = "Unauthorized"]
    /\ UNCHANGED <<store, clock, tz>>

\* the request is at a store call whose error the handler throws
AtThrowingCall(c) ==
    LET route == reqs[c].route
        stage == reqs[c].pc
        body  == reqs[c].body
    IN  \/ stage \in {"query", "insert"}
        \/ /\ stage = "handler"
           /\ \/ route \in {"GET /api/timings/:year", "GET /api/od/pending",
                            "GET /api/reports/summary", "GET /api/reports/export",
                            "GET /api/admin/whitelist", "POST /api/admin/whitelist",
                            "DELETE /api/admin/whitelist/:email", "POST /api/admin/timings"}
              \/ route = "POST /api/user"
                    /\ ~(Checked(c) /\ reqs[c].user.sub # body.id)
              \/ route = "POST /api/od/request"
                    /\ ~(Checked(c) /\ body.user_id # reqs[c].user.sub)
              \/ route = "PUT /api/od/review/:id"
                    /\ ~(Checked(c) /\ body.reviewedBy # reqs[c].user.sub)

\* if (error) throw error, then catch (err): res.status(500).json({ error: err.message })
handler_call_fails(c) ==
    /\ AtThrowingCall(c)
    /\ reqs' = [reqs EXCEPT ![c].error = StoreDown, ![c].pc = "done", ![c].status = 500,
                            ![c].out = StoreDown]
    /\ UNCHANGED <<store, clock, tz>>

(***************************************************************************)
(* SpecFaults: the routes of part_000 under the tokens of a student and of *)
(* an administrator, with every store call free to fail, while the other   *)
(* connections change the whitelist.                                       *)
(***************************************************************************)
FaultRequests(c) ==
    IF c = 1
    THEN {Request("part_000", rt, Bearer(t), RouteParam(rt), RouteBody(rt)) :
              rt \in Part000Routes, t \in {"tok_student", "tok_hod"}}
    ELSE {Request("part_000", rt, Bearer("tok_dean"), RouteParam(rt), RouteBody(rt)) :
              rt \in WhitelistChanges}

NextFaults ==
    \E c \in Conns :
        \/ \E q \in FaultRequests(c) : Receive(c, q)
        \/ Serve(c)
        \/ authorize_lookup_fails(c)
        \/ owner_lookup_fails(c)
        \/ handler_call_fails(c)

SpecFaults == Init /\ [][NextFaults]_vars

(***************************************************************************)
(* Properties.                                                             *)
(***************************************************************************)
Whitelisted(email) == \E w \in admin_whitelist : w.email = email

Institutional(email) ==
    \E n \in 0..Len(email) : SubSeq(email, n + 1, Len(email)) = "@kpriet.ac.in"

\* connection c takes the step, leaving stage pc of a request to route
Leaves(c, route, stage) ==
    /\ reqs[c].route = route
    /\ reqs[c].pc = stage
    /\ reqs'[c].pc # stage

Refused(c, code) == reqs'[c].pc = "done" /\ reqs'[c].status = code

\* C1: a request to any route but GET /api/health without a valid bearer
\* credential is answered 401, and neither the role check, the handler nor a
\* store call runs for it: it is never past the authenticate stage.
C1_NoCredentialIs401 ==
    \A c \in Conns :
        (/\ reqs[c].pc # "idle"
         /\ reqs[c].route \notin OpenRoutes
         /\ ~ValidCredential(reqs[c].hdr))
        => /\ reqs[c].pc \in {"authenticate", "done"}
           /\ reqs[c].pc = "done" => reqs[c].status = 401

Reviewed == {"approved", "rejected"}

Statuses == {"pending"} \cup Reviewed

LastRow(rows) == rows[Len(rows)]

\* C4: a POST /api/od/request whose body user_id differs from the
\* authenticated subject gets 403 and does not reach the store, and every row
\* inserted carries the subject authenticated in the request that inserts it.
C4_CreateOnlyForSelf ==
    [][/\ \A c \in Conns :
             (/\ Leaves(c, Create, "handler")
              /\ reqs[c].body.user_id # reqs[c].user.sub)
             => Refused(c, 403) /\ UNCHANGED store
       /\ Len(od_requests') > Len(od_requests)
             => \E c \in Conns :
                   /\ Leaves(c, Create, "insert")
                   /\ ValidCredential(reqs[c].hdr)
                   /\ LastRow(od_requests').user_id = Claims[reqs[c].hdr.token].sub
      ]_vars

\* a whitelisted administrator's review is the step connection c takes
AdminReviews(c) ==
    /\ Leaves(c, Review, "handler")
    /\ ValidCredential(reqs[c].hdr)
    /\ reqs[c].user = Claims[reqs[c].hdr.token]
    /\ reqs[c].department # Undefined

\* C5: the status of an OD request changes at most once, by an
\* administrator's review, from pending to approved or rejected; a reviewed
\* request is never changed again, and the status is always one of the three.
C5_ReviewedOnce ==
    [][\A i \in 1..Len(od_requests) :
          /\ od_requests'[i].status \in Statuses
          /\ od_requests[i].status \in Reviewed => od_requests'[i] = od_requests[i]
          /\ od_requests'[i].status # od_requests[i].status
                => /\ od_requests[i].status = "pending"
                   /\ od_requests'[i].status \in Reviewed
                   /\ \E c \in Conns : AdminReviews(c)
      ]_vars

\* C6: a row's reviewed_by, when set, is the subject of the whitelisted
\* administrator whose review wrote it; a review whose reviewedBy differs
\* from the authenticated subject gets 403 and leaves the rows unchanged.
C6_ReviewerIsTheAdmin ==
    [][/\ \A i \in 1..Len(od_requests') :
             (/\ od_requests'[i].reviewed_by # Null
              /\ i \in 1..Len(od_requests) => od_requests'[i] # od_requests[i])
             => \E c \in Conns :
                   /\ AdminReviews(c)
                   /\ od_requests'[i].reviewed_by = reqs[c].user.sub
       /\ \A c \in Conns :
             (/\ Leaves(c, Review, "handler")
              /\ ValidCredential(reqs[c].hdr)
              /\ reqs[c].body.reviewedBy # Claims[reqs[c].hdr.token].sub)
             => Refused(c, 403) /\ UNCHANGED od_requests
      ]_vars

\* C7: the row a POST /api/od/request answered 201 has created is stored
\* with status pending and no reviewer fields, whatever the body contains.
C7_CreatedPending ==
    \A c \in Conns :
        (reqs[c].route = Create /\ reqs[c].pc = "done" /\ reqs[c].status = 201)
        => /\ reqs[c].out[1].status = "pending"
           /\ reqs[c].out[1].reviewed_by = Null
           /\ reqs[c].out[1].reviewed_at = Null

\* C8: for an administrator whose whitelist entry has a department, the
\* summary counts and the exported lines come from rows of that department only.
C8_ReportsScoped ==
    \A c \in Conns :
        (/\ reqs[c].app = "part_000"
         /\ reqs[c].pc = "done"
         /\ reqs[c].status = 200
         /\ Truthy(reqs[c].department))
        => /\ reqs[c].route = "GET /api/reports/summary"
                => DOMAIN reqs[c].out.deptDistribution \subseteq {reqs[c].department}
           /\ reqs[c].route = "GET /api/reports/export"
                => \A i \in 1..Len(reqs[c].out) :
                       reqs[c].out[i].department = reqs[c].department

\* C9: with today's local day D, a request for a calendar day before D is
\* answered 400 without an insert, and a request for day D or later passes
\* the validation, whatever timing rows the lookup returns.
C9_PastDatesOnly ==
    [][\A c \in Conns :
          LET date == reqs[c].body.date
              D    == LocalDay(clock, tz)
          IN  (/\ Leaves(c, Create, "handler")
               /\ reqs[c].body.user_id = reqs[c].user.sub
               /\ date.form # "invalid")
              => IF date.day < D
                 THEN Refused(c, 400) /\ UNCHANGED store
                 ELSE reqs'[c].pc = "insert"
      ]_vars

\* C10: a review by a whitelisted administrator with matching reviewedBy, of
\* a row that exists, succeeds whatever the row's status is and whichever
\* reviews ran before or meanwhile, and leaves in the row exactly its own
\* status, remarks, reviewed_by and reviewed_at: the last update applied wins.
C10_LastReviewWins ==
    [][\A c \in Conns : \A i \in 1..Len(od_requests) :
          (/\ Leaves(c, Review, "handler")
           /\ reqs[c].app = "part_000"
           /\ reqs[c].body.reviewedBy = reqs[c].user.sub
           /\ od_requests[i].id = reqs[c].param)
          => /\ reqs'[c].pc = "done"
             /\ reqs'[c].status = 200
             /\ od_requests'[i].status = reqs[c].body.status
             /\ od_requests'[i].remarks = reqs[c].body.remarks
             /\ od_requests'[i].reviewed_by = reqs[c].user.sub
             /\ od_requests'[i].reviewed_at = ToString(clock)
             /\ reqs'[c].out = <<od_requests'[i]>>
      ]_vars

\* two reviews of row 1 with different statuses were both answered 200, and
\* the row holds the one applied last, stamped after the clock advanced
C10_Witness ==
    /\ \A c \in {1, 2} :
          /\ reqs[c].app = "part_000"
          /\ reqs[c].route = Review
          /\ reqs[c].param = "1"
          /\ reqs[c].pc = "done"
          /\ reqs[c].status = 200
    /\ reqs[1].body.status = "approved"
    /\ reqs[2].body.status = "rejected"
    /\ reqs[1].out[1].reviewed_at = ToString(StartOfService)
    /\ reqs[2].user.sub = "a2"
    /\ od_requests[1].status = "rejected"
    /\ od_requests[1].reviewed_by = "a2"
    /\ od_requests[1].reviewed_at = ToString(StartOfService + TickMinutes)

\* C11: when a store call made for an authenticated request fails, the
\* request is answered 500 with the store's message, for every store call on
\* its path, the whitelist lookups of the role and ownership checks included:
\* the failure never becomes a 403 and never lets the request go on.  (A row
\* not found by the single-row user lookup is the store's answer, not a
\* failure of the call, and is answered 404.)
C11_StoreFailureIs500 ==
    \A c \in Conns :
        reqs[c].error # Undefined
        => /\ reqs[c].pc = "done"
           /\ reqs[c].status = 500
           /\ reqs[c].out = reqs[c].error

====
